---- MODULE Spec2Model ----
(***************************************************************************)
(* State-machine model of media_controller.py: the MediaController object, *)
(* the persisted configuration file, the external media player's command   *)
(* stream, the wall clock, and the control flow of main() / curses_ui().   *)
(*                                                                         *)
(* Paths and playlist-file lines are sequences of one-character strings,   *)
(* so that strip(), startswith('#'), expanduser() and abspath() are        *)
(* computed rather than assumed.  Seconds are integers.                    *)
(***************************************************************************)
EXTENDS Integers, Sequences, FiniteSets, TLC

\* ------------------------------------------------------------------ bounds
\* The wall clock advances from 0 up to MaxTime.
MaxTime == 2
\* At most MaxOps controller operations / key presses are made in one run.
MaxOps == 4

\* ------------------------------------------------------- program constants
DefaultVolume == 50
VolumeMin == 0
VolumeMax == 100
VolumeStep == 5
NoSelection == -1

\* ------------------------------------------------------------- file system
NoPath == << >>
FileA == <<"/", "h", "/", "a">>
FileB == <<"/", "w", "/", "b">>
FileM == <<"/", "m">>
HomeDir == <<"/", "h">>
CwdDir == <<"/", "w">>

\* The media files present on disk, with the duration mutagen reports.
MediaOnDisk == {FileA, FileB}
DurationOnDisk(p) == IF p = FileA THEN 2 ELSE 0

\* Arguments handed to play(file_path) by a caller.
PlayArgs == {<<"~", "/", "a">>, FileM}

\* Playlist files on disk: name -> lines as read by `for line in f`.
PlaylistTwo == <<"/", "p", "2">>
PlaylistNone == <<"/", "p", "0">>
PlaylistMiss == <<"/", "p", "m">>
PlaylistAbsent == <<"/", "p", "x">>
PlaylistArgs == {PlaylistTwo, PlaylistNone, PlaylistMiss, PlaylistAbsent}
PlaylistsOnDisk == {PlaylistTwo, PlaylistNone, PlaylistMiss}
PlaylistLines(p) ==
    IF p = PlaylistTwo
    THEN << <<"#", "c", "\n">>, <<"\n">>, <<" ", "/", "h", "/", "a", " ", "\n">>,
            <<"b", "\n">> >>
    ELSE IF p = PlaylistNone
    THEN << <<"#", "c", "\n">>, <<" ", "\n">> >>
    ELSE << <<"/", "m", "\n">>, <<"/", "h", "/", "a">> >>

\* os.path.exists
exists(p) == p \in MediaOnDisk \cup PlaylistsOnDisk

\* Levels handed to set_volume by a caller (--volume takes any int).
VolumeArgs == {-20, 45, 150}

\* ------------------------------------------------------- string functions
Whitespace == {" ", "\t", "\n"}

RECURSIVE lstrip(_)
lstrip(s) == IF s # << >> /\ Head(s) \in Whitespace THEN lstrip(Tail(s)) ELSE s

RECURSIVE rstrip(_)
rstrip(s) ==
    IF s # << >> /\ s[Len(s)] \in Whitespace
    THEN rstrip(SubSeq(s, 1, Len(s) - 1))
    ELSE s

\* str.strip()
strip(s) == rstrip(lstrip(s))

\* str.startswith(c) for a one-character prefix
startswith(s, c) == s # << >> /\ Head(s) = c

\* os.path.expanduser: a leading "~" becomes the home directory
expanduser(p) == IF startswith(p, "~") THEN HomeDir \o Tail(p) ELSE p

\* os.path.abspath: a relative path is joined to the working directory
abspath(p) == IF startswith(p, "/") THEN p ELSE CwdDir \o <<"/">> \o p

\* max(0, min(100, level))
Min(a, b) == IF a < b THEN a ELSE b
Max(a, b) == IF a > b THEN a ELSE b

\* Python's list[i] for an index the list accepts (negative counts from the end)
PyIndex(list, i) == IF i >= 0 THEN list[i + 1] ELSE list[Len(list) + i + 1]

\* Python's a % n for n > 0 (the result is never negative)
PyMod(a, n) == a % n

\* dict.get(key, default)
DictGet(d, key, default) == IF key \in DOMAIN d THEN d[key] ELSE default

\* All orders of a list (the outcomes of random.shuffle)
RECURSIVE Permutations_(_)
Permutations_(list) ==
    IF list = << >> THEN { << >> }
    ELSE UNION { { <<list[i]>> \o rest :
                     rest \in Permutations_(SubSeq(list, 1, i - 1)
                                            \o SubSeq(list, i + 1, Len(list))) }
                 : i \in 1..Len(list) }


\* ------------------------------------------------------------------- state
VARIABLES
    current_file,          \* self.current_file
    metadata,              \* self.metadata (the keys the controller reads)
    is_playing,            \* self.is_playing
    volume,                \* self.volume
    playlist,              \* self.playlist
    current_track_index,   \* self.current_track_index
    repeat_mode,           \* self.repeat_mode
    shuffle_mode,          \* self.shuffle_mode
    last_position,         \* self.last_position
    playback_start_time,   \* self.playback_start_time
    paused_time,           \* self.paused_time
    config,                \* content of ~/.termux_media_controller_config.json
    player,                \* last command sent to termux-media-player
    printed,               \* last line printed by the running operation
    now,                   \* time.time()
    pc,                    \* where main() is
    lastOp,                \* the operation that ran last, its argument, and
                           \* current_track_index when it was called
    nops,                  \* operations run so far
    played,                \* wall-clock time spent playing since play(file)
    clean                  \* only pause / resume followed that play(file)

vars == << current_file, metadata, is_playing, volume, playlist,
           current_track_index, repeat_mode, shuffle_mode, last_position,
           playback_start_time, paused_time, config, player, printed, now,
           pc, lastOp, nops, played, clean >>

\* The controller together with what it acts on, as one value.
World ==
    [ current_file |-> current_file, metadata |-> metadata,
      is_playing |-> is_playing, volume |-> volume, playlist |-> playlist,
      current_track_index |-> current_track_index,
      repeat_mode |-> repeat_mode, shuffle_mode |-> shuffle_mode,
      last_position |-> last_position,
      playback_start_time |-> playback_start_time,
      paused_time |-> paused_time, config |-> config, player |-> player,
      printed |-> printed, now |-> now ]

Apply(w) ==
    /\ current_file' = w.current_file
    /\ metadata' = w.metadata
    /\ is_playing' = w.is_playing
    /\ volume' = w.volume
    /\ playlist' = w.playlist
    /\ current_track_index' = w.current_track_index
    /\ repeat_mode' = w.repeat_mode
    /\ shuffle_mode' = w.shuffle_mode
    /\ last_position' = w.last_position
    /\ playback_start_time' = w.playback_start_time
    /\ paused_time' = w.paused_time
    /\ config' = w.config
    /\ player' = w.player
    /\ printed' = w.printed
    /\ now' = w.now

\* ------------------------------------------------------ persisted state file
ConfigAbsent == [kind |-> "absent", data |-> [k \in {} |-> 0]]
ConfigGarbage == [kind |-> "garbage", data |-> [k \in {} |-> 0]]
\* written by an earlier run, paused on the second track after 3 s; the
\* first track's file has been removed since
ConfigEarlier ==
    [kind |-> "dict",
     data |-> [current_file |-> FileA, last_position |-> 3, volume |-> 35,
               playlist |-> <<FileM, FileA>>, current_track_index |-> 1,
               repeat_mode |-> FALSE, shuffle_mode |-> FALSE]]
\* edited by hand: one key, out of the range set_volume keeps
ConfigEdited == [kind |-> "dict", data |-> [volume |-> 150]]
\* valid JSON that is not an object, such as []
ConfigList == [kind |-> "list", data |-> [k \in {} |-> 0]]
ConfigsAtStart ==
    {ConfigAbsent, ConfigGarbage, ConfigList, ConfigEarlier, ConfigEdited}

\* load_config, lines 248-249: json.load returns a value without .get, and
\* the AttributeError is not among the exceptions line 257 catches
load_config_raises(w) == w.config.kind = "list"

\* save_config: the seven persisted fields, written as one JSON object
save_config(w) ==
    [w EXCEPT !.config =
        [kind |-> "dict",
         data |-> [current_file |-> w.current_file,
                   last_position |-> w.last_position,
                   volume |-> w.volume,
                   playlist |-> w.playlist,
                   current_track_index |-> w.current_track_index,
                   repeat_mode |-> w.repeat_mode,
                   shuffle_mode |-> w.shuffle_mode]]]

\* load_config: absent file and JSONDecodeError keep the constructor's values;
\* an exception raised at the first config.get leaves every field as it was
load_config(w) ==
    IF w.config.kind = "absent"
    THEN [w EXCEPT !.printed = "No config file found."]
    ELSE IF w.config.kind = "garbage"
    THEN [w EXCEPT !.printed = "Error decoding config file."]
    ELSE IF load_config_raises(w)
    THEN [w EXCEPT !.printed = "Traceback"]
    ELSE LET d == w.config.data IN
         [w EXCEPT
            !.current_file = DictGet(d, "current_file", NoPath),
            !.last_position = DictGet(d, "last_position", 0),
            !.volume = DictGet(d, "volume", DefaultVolume),
            !.playlist = DictGet(d, "playlist", << >>),
            !.current_track_index = DictGet(d, "current_track_index", NoSelection),
            !.repeat_mode = DictGet(d, "repeat_mode", FALSE),
            !.shuffle_mode = DictGet(d, "shuffle_mode", FALSE),
            !.printed = "Configuration loaded."]

\* ------------------------------------------------------------ the controller
\* _run_termux_command(["termux-media-player", cmd, ...])
run_media_player(w, cmd) == [w EXCEPT !.player = cmd]

\* load_metadata: mutagen's duration, or 0 on any exception
load_metadata(w) ==
    [w EXCEPT !.metadata =
        [duration |-> IF w.current_file \in MediaOnDisk
                      THEN DurationOnDisk(w.current_file) ELSE 0]]

\* play, lines 51-56: the assignments that select the file to play
play_select(w, file_path) ==
    IF file_path # NoPath
    THEN [w EXCEPT !.current_file = expanduser(file_path),
                   !.current_track_index = NoSelection,
                   !.last_position = 0]
    ELSE IF w.playlist # << >> /\ w.current_track_index # NoSelection
    THEN [w EXCEPT !.current_file = PyIndex(w.playlist, w.current_track_index)]
    ELSE w

\* play without the branch of lines 57-59: an empty current_file goes on to
\* the existence test
play_unchecked(w, file_path) ==
    LET w1 == play_select(w, file_path) IN
    IF ~exists(w1.current_file)
    THEN [w1 EXCEPT !.printed = "Error: File not found"]
    ELSE save_config(load_metadata(
            [run_media_player(w1, "play") EXCEPT
                !.printed = "Playing",
                !.is_playing = TRUE,
                !.playback_start_time = w1.now - w1.last_position]))

play(w, file_path) ==
    LET w1 == play_select(w, file_path) IN
    IF /\ file_path = NoPath
       /\ ~(w.playlist # << >> /\ w.current_track_index # NoSelection)
       /\ w.current_file = NoPath
    THEN [w EXCEPT !.printed = "No file specified to play."]
    ELSE IF ~exists(w1.current_file)
    THEN [w1 EXCEPT !.printed = "Error: File not found"]
    ELSE save_config(load_metadata(
            [run_media_player(w1, "play") EXCEPT
                !.printed = "Playing",
                !.is_playing = TRUE,
                !.playback_start_time = w1.now - w1.last_position]))

\* pause without the test of is_playing at line 74
pause_unguarded(w) ==
    save_config(
        [run_media_player(w, "pause") EXCEPT
            !.is_playing = FALSE,
            !.paused_time = w.now,
            !.last_position = w.last_position + (w.now - w.playback_start_time)])

\* pause with the operands of line 78 exchanged
pause_backwards(w) ==
    IF w.is_playing
    THEN save_config(
            [run_media_player(w, "pause") EXCEPT
                !.is_playing = FALSE,
                !.paused_time = w.now,
                !.last_position = w.last_position + (w.playback_start_time - w.now)])
    ELSE w

pause(w) ==
    IF w.is_playing
    THEN save_config(
            [run_media_player(w, "pause") EXCEPT
                !.is_playing = FALSE,
                !.paused_time = w.now,
                !.last_position = w.last_position + (w.now - w.playback_start_time)])
    ELSE w

stop(w) ==
    IF w.is_playing
    THEN save_config(
            [run_media_player(w, "stop") EXCEPT
                !.is_playing = FALSE,
                !.last_position = 0])
    ELSE w

\* next_track, line 96 choosing some other track under shuffle_mode
next_index_shuffled_skips(index, length) == PyMod(index + 2, length)

\* next_track, line 96: the index chosen when shuffle_mode is on
next_index_shuffled(index, length) == PyMod(index + 1, length)

\* next_track, line 98: the index chosen when shuffle_mode is off
next_index_sequential(index, length) == PyMod(index + 1, length)

\* next_track, line 100 without its test of repeat_mode
PlaylistFinishedAnyMode(index, repeat) == index = 0

\* next_track, line 100: the test that ends the playlist
PlaylistFinished(index, repeat) == index = 0 /\ ~repeat

next_track(w) ==
    IF w.playlist = << >>
    THEN [w EXCEPT !.printed = "No playlist loaded."]
    ELSE LET w1 == [w EXCEPT !.current_track_index =
                        IF w.shuffle_mode
                        THEN next_index_shuffled(w.current_track_index,
                                                 Len(w.playlist))
                        ELSE next_index_sequential(w.current_track_index,
                                                   Len(w.playlist))] IN
         IF PlaylistFinished(w1.current_track_index, w1.repeat_mode)
         THEN [stop(w1) EXCEPT !.printed = "Playlist finished."]
         ELSE play(w1, NoPath)

\* prev_track made symmetric with next_track: stepping back from index 0
\* with repeat off ends the playlist
prev_track_finishes(w) ==
    IF w.playlist = << >>
    THEN [w EXCEPT !.printed = "No playlist loaded."]
    ELSE IF w.current_track_index = 0 /\ ~w.repeat_mode
    THEN [stop(w) EXCEPT !.printed = "Playlist finished."]
    ELSE play([w EXCEPT !.current_track_index =
                  PyMod(w.current_track_index - 1 + Len(w.playlist),
                        Len(w.playlist))],
              NoPath)

prev_track(w) ==
    IF w.playlist = << >>
    THEN [w EXCEPT !.printed = "No playlist loaded."]
    ELSE play([w EXCEPT !.current_track_index =
                  PyMod(w.current_track_index - 1 + Len(w.playlist),
                        Len(w.playlist))],
              NoPath)

\* get_playback_info, line 146: current_seconds while playing, before the cap
current_seconds_playing(w) ==
    w.last_position + (w.now - w.playback_start_time)

\* get_playback_info: <<current_seconds, total_seconds>>
get_playback_info(w) ==
    LET total_seconds == DictGet(w.metadata, "duration", 0)
        live == current_seconds_playing(w)
    IN IF w.is_playing
       THEN << IF live > total_seconds /\ total_seconds > 0
               THEN total_seconds ELSE live,
               total_seconds >>
       ELSE << w.last_position, total_seconds >>

\* line 153 without the lower limit
ClampAbove(level) == Min(VolumeMax, level)

\* line 153
Clamp(level) == Max(VolumeMin, Min(VolumeMax, level))

set_volume(w, level) == save_config([w EXCEPT !.volume = Clamp(level)])

\* load_playlist, lines 208-211: the lines kept, in order
RECURSIVE read_playlist(_)
read_playlist(lines) ==
    IF lines = << >> THEN << >>
    ELSE LET line == strip(Head(lines)) IN
         IF line # << >> /\ ~startswith(line, "#")
         THEN <<abspath(line)>> \o read_playlist(Tail(lines))
         ELSE read_playlist(Tail(lines))

load_playlist(w, playlist_path) ==
    LET path == expanduser(playlist_path) IN
    IF ~exists(path)
    THEN [w EXCEPT !.printed = "Playlist file not found"]
    ELSE LET tracks == read_playlist(PlaylistLines(path)) IN
         save_config(
            IF tracks # << >>
            THEN [w EXCEPT !.playlist = tracks,
                           !.current_track_index = 0,
                           !.printed = "Loaded playlist"]
            ELSE [w EXCEPT !.playlist = tracks,
                           !.printed = "Playlist is empty."])

\* shuffle_playlist drawing every slot from the list (random.choices)
\* instead of reordering it: here every slot gets the track drawn first
shuffle_playlist_resamples(w, shuffled) ==
    save_config([w EXCEPT !.playlist = [i \in 1..Len(shuffled) |-> shuffled[1]],
                          !.current_track_index = 0,
                          !.printed = "Playlist shuffled."])

\* shuffle_playlist; `shuffled` is the order random.shuffle produced
shuffle_playlist(w, shuffled) ==
    save_config([w EXCEPT !.playlist = shuffled,
                          !.current_track_index = 0,
                          !.printed = "Playlist shuffled."])

\* toggle_repeat switching the mode on instead of flipping it
toggle_repeat_sets(w) ==
    save_config([w EXCEPT !.repeat_mode = TRUE,
                          !.printed = "Repeat mode"])

toggle_repeat(w) ==
    save_config([w EXCEPT !.repeat_mode = ~w.repeat_mode,
                          !.printed = "Repeat mode"])

toggle_shuffle(w) ==
    save_config([w EXCEPT !.shuffle_mode = ~w.shuffle_mode,
                          !.printed = "Shuffle mode"])

resume_playback(w) ==
    IF w.current_file # NoPath /\ exists(w.current_file)
    THEN save_config(load_metadata(
            [run_media_player(w, "play") EXCEPT
                !.printed = "Resuming playback",
                !.is_playing = TRUE,
                !.playback_start_time = w.now - w.last_position]))
    ELSE [w EXCEPT !.printed = "No previous session to resume."]

\* curses_ui, lines 336-337: every iteration refreshes the metadata
render(w) == IF w.current_file # NoPath THEN load_metadata(w) ELSE w


\* ----------------------------------------------------------- specification
\* The object as __init__ leaves it at line 28, before load_config runs.
Init ==
    /\ current_file = NoPath
    /\ metadata = [k \in {} |-> 0]
    /\ is_playing = FALSE
    /\ volume = DefaultVolume
    /\ playlist = << >>
    /\ current_track_index = NoSelection
    /\ repeat_mode = FALSE
    /\ shuffle_mode = FALSE
    /\ last_position = 0
    /\ playback_start_time = 0
    /\ paused_time = 0
    /\ config \in ConfigsAtStart
    /\ player = "none"
    /\ printed = ""
    /\ now = 0
    /\ pc = "init"
    /\ lastOp = [op |-> "none", level |-> 0, path |-> NoPath,
                 index |-> NoSelection]
    /\ nops = 0
    /\ played = 0
    /\ clean = FALSE

\* What the call does to the two records kept for the interval property:
\* `clean` holds while play(file) has been followed only by pause and by
\* play() resuming the same file from the paused state.
Track(name, path, w2) ==
    /\ played' = IF name = "play" /\ path # NoPath /\ w2.printed = "Playing"
                 THEN 0 ELSE played
    /\ clean' =
         IF name = "play" /\ path # NoPath THEN w2.printed = "Playing"
         ELSE IF name = "play"
         THEN /\ clean /\ ~is_playing /\ w2.printed = "Playing"
              /\ current_track_index = NoSelection
         ELSE IF name \in {"pause", "set_volume", "toggle_repeat",
                           "toggle_shuffle", "idle"}
         THEN clean
         ELSE FALSE

\* One call of a controller method, or one iteration of the key loop.
Call(name, level, path, w2) ==
    /\ nops < MaxOps
    /\ Apply(w2)
    /\ lastOp' = [op |-> name, level |-> level, path |-> path,
                  index |-> current_track_index]
    /\ nops' = nops + 1
    /\ Track(name, path, w2)
    /\ UNCHANGED pc

\* The state an operation starts from: nothing printed yet.
Entry == [World EXCEPT !.printed = ""]

\* __init__, line 30
Construct ==
    /\ pc = "init"
    /\ Apply(load_config(Entry))
    /\ pc' = IF load_config_raises(Entry) THEN "raised" ELSE "ready"
    /\ UNCHANGED << lastOp, nops, played, clean >>

\* time.time() moves on between operations
Tick ==
    /\ pc \in {"ready", "ui"}
    /\ now < MaxTime
    /\ now' = now + 1
    /\ played' = IF is_playing THEN played + 1 ELSE played
    /\ UNCHANGED << current_file, metadata, is_playing, volume, playlist,
                    current_track_index, repeat_mode, shuffle_mode,
                    last_position, playback_start_time, paused_time, config,
                    player, printed, pc, lastOp, nops, clean >>

\* The public methods, called on the constructed object (main() calls
\* set_volume, load_playlist, the toggles, play and resume_playback here).
PlayFile ==
    /\ pc = "ready"
    /\ \E f \in PlayArgs : Call("play", 0, f, play(Entry, f))

PlayCurrent == pc = "ready" /\ Call("play", 0, NoPath, play(Entry, NoPath))

Pause == pc = "ready" /\ Call("pause", 0, NoPath, pause(Entry))

Stop == pc = "ready" /\ Call("stop", 0, NoPath, stop(Entry))

NextTrack == pc = "ready" /\ Call("next_track", 0, NoPath, next_track(Entry))

PrevTrack == pc = "ready" /\ Call("prev_track", 0, NoPath, prev_track(Entry))

SetVolume ==
    /\ pc = "ready"
    /\ \E level \in VolumeArgs :
          Call("set_volume", level, NoPath, set_volume(Entry, level))

LoadPlaylist ==
    /\ pc = "ready"
    /\ \E p \in PlaylistArgs : Call("load_playlist", 0, p, load_playlist(Entry, p))

ShufflePlaylist ==
    /\ pc = "ready"
    /\ \E shuffled \in Permutations_(playlist) :
          Call("shuffle_playlist", 0, NoPath, shuffle_playlist(Entry, shuffled))

ToggleRepeat ==
    pc = "ready" /\ Call("toggle_repeat", 0, NoPath, toggle_repeat(Entry))

ToggleShuffle ==
    pc = "ready" /\ Call("toggle_shuffle", 0, NoPath, toggle_shuffle(Entry))

ResumePlayback ==
    pc = "ready" /\ Call("resume_playback", 0, NoPath, resume_playback(Entry))

\* main, lines 422-438: the exits that never open the interface
MainReturn ==
    /\ pc = "ready"
    /\ pc' = "returned"
    /\ UNCHANGED << current_file, metadata, is_playing, volume, playlist,
                    current_track_index, repeat_mode, shuffle_mode,
                    last_position, playback_start_time, paused_time, config,
                    player, printed, now, lastOp, nops, played, clean >>

\* main, line 441: curses.wrapper(controller.curses_ui)
EnterUI ==
    /\ pc = "ready"
    /\ pc' = "ui"
    /\ UNCHANGED << current_file, metadata, is_playing, volume, playlist,
                    current_track_index, repeat_mode, shuffle_mode,
                    last_position, playback_start_time, paused_time, config,
                    player, printed, now, lastOp, nops, played, clean >>

\* curses_ui: one iteration of the loop for each key, the handler followed by
\* the refresh of the display.
KeySpace ==
    /\ pc = "ui"
    /\ IF is_playing
       THEN Call("pause", 0, NoPath, render(pause(Entry)))
       ELSE Call("play", 0, NoPath, render(play(Entry, NoPath)))

KeyRight == pc = "ui" /\ Call("next_track", 0, NoPath, render(next_track(Entry)))

KeyLeft == pc = "ui" /\ Call("prev_track", 0, NoPath, render(prev_track(Entry)))

KeyUp ==
    /\ pc = "ui"
    /\ Call("set_volume", volume + VolumeStep, NoPath,
            render(set_volume(Entry, volume + VolumeStep)))

KeyDown ==
    /\ pc = "ui"
    /\ Call("set_volume", volume - VolumeStep, NoPath,
            render(set_volume(Entry, volume - VolumeStep)))

KeyS == pc = "ui" /\ Call("toggle_shuffle", 0, NoPath, render(toggle_shuffle(Entry)))

KeyR == pc = "ui" /\ Call("toggle_repeat", 0, NoPath, render(toggle_repeat(Entry)))

\* no key, or a key the session ignores ('l' only fetches lyrics)
KeyNone == pc = "ui" /\ Call("idle", 0, NoPath, render(Entry))

\* Leaving the loop: 'q', a curses.error caught in main, any other exception.
Leave(how) ==
    /\ pc = "ui"
    /\ pc' = "finally"
    /\ lastOp' = [op |-> how, level |-> 0, path |-> NoPath,
                  index |-> current_track_index]
    /\ UNCHANGED << current_file, metadata, is_playing, volume, playlist,
                    current_track_index, repeat_mode, shuffle_mode,
                    last_position, playback_start_time, paused_time, config,
                    player, printed, now, nops, played, clean >>

KeyQuit == Leave("quit")

CursesError == Leave("curses.error")

OtherError == Leave("exception")

\* main, lines 445-446: finally: controller.stop()
Finally ==
    /\ pc = "finally"
    /\ Apply(stop(Entry))
    /\ pc' = "exited"
    /\ lastOp' = [op |-> "stop", level |-> 0, path |-> NoPath,
                  index |-> current_track_index]
    /\ clean' = FALSE
    /\ UNCHANGED << nops, played >>

Next ==
    \/ Construct
    \/ Tick
    \/ PlayFile
    \/ PlayCurrent
    \/ Pause
    \/ Stop
    \/ NextTrack
    \/ PrevTrack
    \/ SetVolume
    \/ LoadPlaylist
    \/ ShufflePlaylist
    \/ ToggleRepeat
    \/ ToggleShuffle
    \/ ResumePlayback
    \/ MainReturn
    \/ EnterUI
    \/ KeySpace
    \/ KeyRight
    \/ KeyLeft
    \/ KeyUp
    \/ KeyDown
    \/ KeyS
    \/ KeyR
    \/ KeyNone
    \/ KeyQuit
    \/ CursesError
    \/ OtherError
    \/ Finally

Spec == Init /\ [][Next]_vars


\* ------------------------------------------------------------------ claims
\* The step just taken was a call of the method `name`.
Called(name) == lastOp.op = name

\* What a restart would read back from the persisted file, against memory.
Persisted == load_config([Entry EXCEPT
                 !.current_file = NoPath, !.last_position = 0,
                 !.volume = DefaultVolume, !.playlist = << >>,
                 !.current_track_index = NoSelection,
                 !.repeat_mode = FALSE, !.shuffle_mode = FALSE])

\* C1: after play(file) followed only by alternating pause / play(), while
\* paused, last_position equals the wall-clock time spent playing.
C1_CheckpointIsTimePlayed ==
    (clean /\ ~is_playing) => last_position = played

\* C2: stop() called in any state leaves is_playing = false and
\* last_position = 0.
C2_StopAlwaysResets ==
    Called("stop") => (~is_playing /\ last_position = 0)

\* C3: when the process has left the interactive loop and ended, and the
\* external player had been started, the last command it was sent is stop.
C3_StoppedOnExit ==
    (pc = "exited" /\ player # "none") => player = "stop"

\* C4: get_playback_info() never returns elapsed > total when total > 0.
C4_ElapsedWithinTotal ==
    LET info == get_playback_info(World) IN
    info[2] > 0 => info[1] <= info[2]


\* C5 (as amended): next_track() called at the last index of a non-empty
\* playlist, with repeat_mode off, reports the playlist finished, starts
\* nothing and leaves is_playing false; with repeat_mode on it selects index
\* 0 and, when playlist[0] exists on disk, starts playing it.
C5_NextTrackAtLastIndex ==
    (Called("next_track") /\ playlist # << >>
        /\ lastOp.index = Len(playlist) - 1)
    => IF ~repeat_mode
       THEN printed = "Playlist finished." /\ ~is_playing /\ player # "play"
       ELSE /\ current_track_index = 0
            /\ exists(playlist[1]) =>
                  /\ is_playing
                  /\ current_file = playlist[1]
                  /\ player = "play"
                  /\ printed = "Playing"

\* C5, witness: with repeat on, next_track() was called at the last index of
\* a playlist of two or more tracks and is now playing the first one.
C5_Witness ==
    /\ Called("next_track") /\ repeat_mode /\ Len(playlist) >= 2
    /\ lastOp.index = Len(playlist) - 1
    /\ current_track_index = 0 /\ is_playing
    /\ current_file = playlist[1] /\ printed = "Playing"

\* C5 (as stated): ... with repeat_mode on the call selects index 0 and
\* starts playing playlist[0] (is_playing = true, current_file = playlist[0]).
C5_AsStated ==
    (Called("next_track") /\ playlist # << >>
        /\ lastOp.index = Len(playlist) - 1)
    => IF ~repeat_mode
       THEN printed = "Playlist finished." /\ ~is_playing /\ player # "play"
       ELSE /\ current_track_index = 0
            /\ is_playing
            /\ current_file = playlist[1]

\* C6: with repeat_mode off, next_track() on a non-empty playlist reports the
\* playlist finished only when it was called at the last index; called at any
\* other index, -1 included, it selects (index + 1) mod length.
C6_FinishedOnlyAtLastIndex ==
    (Called("next_track") /\ playlist # << >> /\ ~repeat_mode)
    => /\ printed = "Playlist finished." => lastOp.index = Len(playlist) - 1
       /\ lastOp.index # Len(playlist) - 1 =>
             current_track_index = PyMod(lastOp.index + 1, Len(playlist))

\* C7: current_track_index is -1 or a valid index into playlist.
C7_IndexValid ==
    \/ current_track_index = NoSelection
    \/ current_track_index \in 0..(Len(playlist) - 1)

MutatingOps ==
    {"play", "pause", "stop", "next_track", "prev_track", "set_volume",
     "toggle_repeat", "toggle_shuffle", "load_playlist", "shuffle_playlist"}

\* C8: after every public mutating operation the persisted record equals
\* the in-memory current_file, last_position, volume, playlist,
\* current_track_index, repeat_mode and shuffle_mode.
C8_PersistedAfterEveryOperation ==
    lastOp.op \in MutatingOps =>
       /\ Persisted.current_file = current_file
       /\ Persisted.last_position = last_position
       /\ Persisted.volume = volume
       /\ Persisted.playlist = playlist
       /\ Persisted.current_track_index = current_track_index
       /\ Persisted.repeat_mode = repeat_mode
       /\ Persisted.shuffle_mode = shuffle_mode

\* C9: 0 <= volume <= 100 in every state of the constructed session.
C9_VolumeInRange ==
    pc # "init" => (0 <= volume /\ volume <= 100)

\* C10: set_volume(level) stores max(0, min(100, level)) and changes no
\* other session field.
C10_SetVolumeClampsOnly ==
    [][ (lastOp'.op = "set_volume" /\ nops' = nops + 1)
        => /\ volume' = (IF lastOp'.level > 100 THEN 100
                         ELSE IF lastOp'.level < 0 THEN 0
                         ELSE lastOp'.level)
           /\ UNCHANGED << current_file, is_playing, playlist,
                           current_track_index, repeat_mode, shuffle_mode,
                           last_position, playback_start_time, paused_time,
                           player >> ]_vars

\* C10, witness: set_volume was called with a level below 0 and stored 0.
C10_Witness ==
    Called("set_volume") /\ lastOp.level < 0 /\ volume = 0

\* The lines of a playlist file that are not blank and are not comments,
\* as the paths they name.
RECURSIVE UsableLines(_)
UsableLines(lines) ==
    IF lines = << >> THEN << >>
    ELSE LET text == SelectSeq(Head(lines), LAMBDA c : c \notin Whitespace)
             rest == UsableLines(Tail(lines))
         IN IF text = << >> \/ text[1] = "#" THEN rest
            ELSE << IF text[1] = "/" THEN text ELSE CwdDir \o <<"/">> \o text >>
                 \o rest

\* C11: loading an existing playlist file keeps, in file order, the lines
\* that are not blank and not comments, and leaves current_track_index 0
\* for a non-empty result and -1 for an empty one.
C11_LoadPlaylistSelectsFirst ==
    (Called("load_playlist") /\ exists(expanduser(lastOp.path)))
    => /\ playlist = UsableLines(PlaylistLines(expanduser(lastOp.path)))
       /\ current_track_index = IF playlist # << >> THEN 0 ELSE NoSelection

\* C12: a persisted file that is not parseable, or parses to something other
\* than a record, does not make the constructor raise and leaves the
\* default state.
C12_MalformedConfigGivesDefaults ==
    (pc # "init" /\ lastOp.op = "none" /\ config.kind \in {"garbage", "list"})
    => /\ pc # "raised"
       /\ current_file = NoPath /\ last_position = 0
       /\ volume = DefaultVolume /\ playlist = << >>
       /\ current_track_index = NoSelection
       /\ ~repeat_mode /\ ~shuffle_mode /\ ~is_playing

\* C13: prev_track() on a non-empty playlist, called at a valid index i,
\* selects i - 1, or length - 1 from index 0, whatever repeat_mode is, never
\* reports the playlist finished, and calls play() on the selected track.
C13_PrevTrackWraps ==
    (Called("prev_track") /\ playlist # << >>
        /\ lastOp.index \in 0..(Len(playlist) - 1))
    => /\ current_track_index =
            (IF lastOp.index = 0 THEN Len(playlist) - 1 ELSE lastOp.index - 1)
       /\ current_file = playlist[current_track_index + 1]
       /\ printed \in {"Playing", "Error: File not found"}
       /\ printed = "Playing" => (is_playing /\ player = "play")

\* C13, witness: with repeat off, prev_track() was called at index 0 of a
\* playlist of two tracks and plays the last one.
C13_Witness ==
    /\ Called("prev_track") /\ ~repeat_mode /\ Len(playlist) = 2
    /\ lastOp.index = 0 /\ current_track_index = 1
    /\ is_playing /\ printed = "Playing"

\* How often x occurs in list.
Occurrences(list, x) == Cardinality({i \in 1..Len(list) : list[i] = x})

SameMultiset(a, b) ==
    /\ Len(a) = Len(b)
    /\ \A i \in 1..Len(a) : Occurrences(a, a[i]) = Occurrences(b, a[i])

\* C14: shuffle_playlist() leaves the playlist a permutation of what it was
\* and sets current_track_index to 0, on every call.
C14_ShuffleIsPermutation ==
    [][ (lastOp'.op = "shuffle_playlist" /\ nops' = nops + 1)
        => /\ SameMultiset(playlist, playlist')
           /\ current_track_index' = 0 ]_vars

\* C14, witness: shuffle_playlist() has put the two tracks loaded from the
\* playlist file in the other order.
C14_Witness ==
    /\ Called("shuffle_playlist")
    /\ playlist = <<FileB, FileA>> /\ current_track_index = 0

\* C15: pause() while not playing changes no session field, sends no command
\* and does not persist; pause() in any state never decreases last_position
\* and leaves the session not playing, so a second pause() changes nothing.
C15_PauseIdempotent ==
    [][ (lastOp'.op = "pause" /\ nops' = nops + 1)
        => /\ ~is_playing =>
                UNCHANGED << current_file, metadata, is_playing, volume,
                             playlist, current_track_index, repeat_mode,
                             shuffle_mode, last_position, playback_start_time,
                             paused_time, config, player >>
           /\ last_position' >= last_position
           /\ ~is_playing' ]_vars

\* C15, witness: pause() was called on a session that had a checkpoint but
\* was never started, and no command has reached the player.
C15_Witness ==
    Called("pause") /\ ~is_playing /\ player = "none" /\ last_position > 0

\* C16: play() without a path, with no playlist selection and an empty
\* current_file, reports that no file was specified and changes nothing: no
\* session field, not the persisted file, and no command to the player.
C16_PlayNothingSelected ==
    [][ (/\ lastOp'.op = "play" /\ lastOp'.path = NoPath /\ nops' = nops + 1
         /\ (playlist = << >> \/ current_track_index = NoSelection)
         /\ current_file = NoPath)
        => /\ printed' = "No file specified to play."
           /\ UNCHANGED << current_file, metadata, is_playing, volume,
                           playlist, current_track_index, repeat_mode,
                           shuffle_mode, last_position, playback_start_time,
                           paused_time, config, player >> ]_vars

\* C16, witness: play() without a path has reported that nothing is selected.
C16_Witness ==
    /\ Called("play") /\ lastOp.path = NoPath
    /\ printed = "No file specified to play."
    /\ current_file = NoPath /\ ~is_playing /\ player = "none"

\* C17: toggle_repeat() flips repeat_mode and toggle_shuffle() flips
\* shuffle_mode; each leaves the other flag, the playlist and its order,
\* current_track_index, is_playing, last_position and volume unchanged (so
\* the same toggle applied twice restores the state).
C17_TogglesFlipOneFlag ==
    [][ /\ (lastOp'.op = "toggle_repeat" /\ nops' = nops + 1)
           => /\ repeat_mode' = ~repeat_mode
              /\ UNCHANGED << shuffle_mode, playlist, current_track_index,
                              is_playing, last_position, volume,
                              current_file, playback_start_time >>
        /\ (lastOp'.op = "toggle_shuffle" /\ nops' = nops + 1)
           => /\ shuffle_mode' = ~shuffle_mode
              /\ UNCHANGED << repeat_mode, playlist, current_track_index,
                              is_playing, last_position, volume,
                              current_file, playback_start_time >> ]_vars

\* C17, witness: toggle_repeat() has just switched repeat_mode off again
\* (no persisted record of the model starts with it on).
C17_Witness ==
    Called("toggle_repeat") /\ ~repeat_mode /\ nops >= 2

\* C18: while playing, the elapsed value before the cap is the checkpoint
\* held when the playing interval started plus the time since it started;
\* so at the instant play() starts or resumes playback from a session that
\* was not playing, elapsed equals the checkpoint.
C18_ElapsedContinuousAtResume ==
    [][ (/\ lastOp'.op = "play" /\ nops' = nops + 1
         /\ ~is_playing /\ is_playing')
        => current_seconds_playing(World)' = last_position' ]_vars

\* The outcome of next_track() that navigation is about.
Navigation(w) ==
    << w.current_track_index, w.current_file, w.is_playing, w.printed,
       w.player >>

\* C19: shuffle_mode has no influence on navigation: from any state of the
\* session, next_track() with shuffle_mode on and with shuffle_mode off
\* gives the same index, the same current_file and the same outcome.
C19_ShuffleModeIgnored ==
    pc \in {"ready", "ui"} =>
       Navigation(next_track([Entry EXCEPT !.shuffle_mode = TRUE]))
          = Navigation(next_track([Entry EXCEPT !.shuffle_mode = FALSE]))

\* C19, witness: next_track() has run with shuffle_mode on, on a playlist of
\* two tracks, and moved on to the second one.
C19_Witness ==
    /\ Called("next_track") /\ shuffle_mode /\ Len(playlist) = 2
    /\ lastOp.index = 0 /\ current_track_index = 1 /\ printed = "Playing"

\* C20: last_position >= 0 in every reachable state (the persisted
\* last_position is not negative and the clock never goes back).
C20_PositionNotNegative ==
    last_position >= 0

\* C20, witness: pause() has stored a checkpoint computed from the clock,
\* after time passed while playing.
C20_Witness ==
    /\ Called("pause") /\ ~is_playing /\ player = "pause"
    /\ paused_time > 0 /\ last_position > 0

\* C21: while playing, current_file is the file last handed to the player's
\* play command: a play(), next_track() or prev_track() call that fails
\* because the selected file does not exist leaves current_file,
\* current_track_index and last_position as they were, and current_file of
\* a session that stays playing changes only when a play command is sent.
C21_FailedPlayChangesNothing ==
    [][ /\ (/\ nops' = nops + 1
            /\ lastOp'.op \in {"play", "next_track", "prev_track"}
            /\ printed' = "Error: File not found")
           => UNCHANGED << current_file, current_track_index, last_position >>
        /\ (is_playing /\ is_playing' /\ current_file' # current_file)
           => (player' = "play" /\ printed' = "Playing") ]_vars

====
